---- MODULE Spec2Model ----
(***************************************************************************)
(* The Celery build workflow of app/workers/tasks.py: start_drone_build    *)
(* fans the buy list out to source_component_task instances (a chord),     *)
(* validate_and_finalize_build is the chord callback (numeric gate, repair *)
(* oracle, CAD + geometric gate, master record), merge_and_revalidate is   *)
(* the callback of a repair chord.                                         *)
(*                                                                         *)
(* Numbers: thrust and weight are grams (integers), twr is kept in         *)
(* hundredths (round(twr, 2) * 100), voltages in tenths of a volt,         *)
(* diameters and gaps in hundredths of a millimetre.                       *)
(***************************************************************************)
EXTENDS Integers, Sequences, FiniteSets, TLC

VARIABLES
    pc,              \* position of the workflow of one build
    tasks,           \* header of the chord in flight: source_component_task signatures and results
    kept_parts,      \* first argument bound into merge_and_revalidate.s(kept_parts, ...)
    iteration,       \* project_context["iteration"]
    current_bom,     \* current_bom of the running validate_and_finalize_build
    physics_report,  \* physics_report of the running validate_and_finalize_build
    replacements,    \* replacements of the last optimization plan that was applied
    assets,          \* assets returned by generate_assets
    geo_report,      \* geo_report of the running validate_and_finalize_build
    master_record,   \* the master record written by validate_and_finalize_build
    task_error,      \* exception that left a task unhandled ("none" if none)
    callback,        \* body of the chord in flight: the task that receives the results
    geo_service,     \* the geometry_sim_service module in use: "app" or "quad"
    sim_data,        \* sim_input of the last run of calc_twr.py
    completion,      \* header positions of the chord in flight, in the order the tasks returned
    history,         \* history: the calls made so far, in order
    forge_pc,        \* position of quad/forge.py main in one campaign
    real_bom,        \* real_bom of forge.py
    physics_cfg,     \* physics_cfg of forge.py: the report of generate_physics_config
    fix_plan,        \* fix_plan of forge.py: what analyze_and_fix returned
    prof_pc,         \* position of scripts/prof_grad_1.py main
    shopping_list,   \* shopping_list of prof_grad_1.py
    kept_parts_cache,  \* kept_parts_cache of prof_grad_1.py, in insertion order
    sourced_items_log, \* sourced_items_log of the last iteration of prof_grad_1.py
    evo_pc,          \* position of auto_engineer.py main
    heap,            \* the dict objects auto_engineer.py created, by identity
    current_specs,   \* current_specs of auto_engineer.py: the identity of a dict
    generations      \* the list "history" of auto_engineer.py: its master records

vars == <<pc, tasks, kept_parts, iteration, current_bom, physics_report,
          replacements, assets, geo_report, master_record, task_error,
          callback, geo_service, sim_data, completion, history,
          forge_pc, real_bom, physics_cfg, fix_plan,
          prof_pc, shopping_list, kept_parts_cache, sourced_items_log,
          evo_pc, heap, current_specs, generations>>

\* the variables of quad/forge.py
forge_vars == <<forge_pc, real_bom, physics_cfg, fix_plan>>

\* the variables of scripts/prof_grad_1.py that the workflow does not have
prof_vars == <<prof_pc, shopping_list, kept_parts_cache, sourced_items_log>>

\* the variables of auto_engineer.py
evo_vars == <<evo_pc, heap, current_specs, generations>>

\* the variables of the two scripts
script_vars == <<prof_vars, evo_vars>>

(***************************************************************************)
(* Bounds of the model.                                                    *)
(***************************************************************************)
\* longest buy list the spec sheet names
MaxBuyList == 3
\* longest replacements list an optimization plan carries
MaxDirectives == 2

\* number of steps of 10 g in the thrust and weight inputs of calc_twr.py
MaxThrustStep == 6
MaxWeightStep == 5

\* number of steps in the wheelbase (25 mm) and prop diameter (1 mm) inputs
\* of run_geometric_simulation
MaxSpanStep == 2
MaxSizeStep == 5

\* longest kit (number of part_types) forge.py sources
MaxQuadBom == 3

(***************************************************************************)
(* Part categories and the product catalogue the part source answers from. *)
(***************************************************************************)
\* part_type values of the buy_list schema, in schema order (plus Propellers)
TopologyOrder == <<"Motors", "Battery", "Propellers", "Frame_Kit", "FC_Stack", "Camera_VTX_Kit">>

\* the buy lists start_drone_build can receive from generate_spec_sheet
BuyLists == { SubSeq(TopologyOrder, 1, n) : n \in 0..MaxBuyList }

\* part_type values an optimization plan can name: one of the topology, one outside it
DirectiveCategories == {"Motors", "GPS"}

\* product titles the part source can come back with for a part_type
ProductsFor(part_type) ==
    CASE part_type = "Motors"     -> {"2207 1800kv motor", "0802 19000kv motor"}
      [] part_type = "Battery"    -> {"6s 1300mah lipo"}
      [] part_type = "Propellers" -> {"5043 prop", "6.3 inch prop"}
      [] part_type = "Frame_Kit"  -> {"5 inch frame"}
      [] part_type = "GPS"        -> {"m10 gps module"}
      [] OTHER                    -> {"generic part"}

\* re.search(r"(\d+\.?\d*)\s?g\b", name): grams stated in the title, 0 when there is no match
name_weight(name) == 0

\* '"2" in name' and '"5" in name' of the fallback weight table
name_has_2(name) == name \in {"2207 1800kv motor", "0802 19000kv motor"}

name_has_5(name) == name \in {"5043 prop", "5 inch frame"}

\* re.search(r"(\d{3,5})\s?kv", name), 0 when there is no match
name_kv(name) ==
    CASE name = "2207 1800kv motor"  -> 1800
      [] name = "0802 19000kv motor" -> 19000
      [] OTHER                       -> 0

\* the step function on the stator size in the title
name_thrust(name) ==
    CASE name = "2207 1800kv motor"  -> 1300
      [] name = "0802 19000kv motor" -> 40
      [] OTHER                       -> 1000

\* re.search(r"(\d)s", name): cell count, 0 when there is no match
name_cells(name) == IF name = "6s 1300mah lipo" THEN 6 ELSE 0

\* re.search(r"(\d{3,5})\s?mah", name), 0 when there is no match
name_mah(name) == IF name = "6s 1300mah lipo" THEN 1300 ELSE 0

\* extract_prop_diameter(title) in hundredths of a millimetre, 0 for None
extract_prop_diameter(name) ==
    CASE name = "5043 prop"     -> 12700
      [] name = "6.3 inch prop" -> 16002
      [] OTHER                  -> 0

\* engineering_specs["diameter_mm"] of a fused part (text inference for Propellers only)
diameter_mm(part) ==
    IF part.part_type = "Propellers" THEN extract_prop_diameter(part.product_name) ELSE 0

(***************************************************************************)
(* source_component_task                                                   *)
(***************************************************************************)
\* the composite part fuse_component_data returns: it carries no "status" key
composite_part(part_type, name) ==
    [part_type |-> part_type, product_name |-> name, status |-> "none"]

\* the fallback structure of a search without result, and of a raising search
failed_part(part_type, status) ==
    [part_type |-> part_type, product_name |-> "", status |-> status]

\* every value source_component_task(part_type, query) can return
source_component_results(part_type) ==
    { composite_part(part_type, n) : n \in ProductsFor(part_type) }
        \cup { failed_part(part_type, "failed"), failed_part(part_type, "error") }

\* a signature source_component_task.s(part_type, query) in a chord header
signature(part_type, query) ==
    [part_type |-> part_type, query |-> query, done |-> FALSE, hung |-> FALSE,
     result |-> failed_part(part_type, "none")]

(***************************************************************************)
(* run_physics_simulation (physics_service.py) and calc_twr.py             *)
(***************************************************************************)
\* 'word in pt' for pt = part_type.lower()
pt_contains(part_type, word) ==
    CASE word = "motor"   -> part_type = "Motors"
      [] word = "frame"   -> part_type = "Frame_Kit"
      [] word = "fc"      -> part_type = "FC_Stack"
      [] word = "stack"   -> part_type = "FC_Stack"
      [] word = "camera"  -> part_type = "Camera_VTX_Kit"
      [] word = "battery" -> part_type = "Battery"
      [] word = "prop"    -> part_type = "Propellers"
      [] OTHER            -> FALSE

\* weight of one item: the grams in its title, else the fallback weight table
item_weight(item) ==
    LET pt == item.part_type
        name == item.product_name
    IN  IF name_weight(name) # 0 THEN name_weight(name)
        ELSE CASE pt_contains(pt, "motor")   -> (IF name_has_2(name) THEN 35 ELSE 5)
               [] pt_contains(pt, "frame")   -> (IF name_has_5(name) THEN 120 ELSE 30)
               [] pt_contains(pt, "fc") \/ pt_contains(pt, "stack") -> 15
               [] pt_contains(pt, "camera")  -> 8
               [] pt_contains(pt, "battery") -> 200
               [] pt_contains(pt, "prop")    -> 5
               [] OTHER                      -> 0

\* the flight variables before the loop over the BOM
physics_vars0 ==
    [total_weight |-> 0, max_thrust_per_motor |-> 0, motor_kv |-> 0,
     battery_voltage |-> 0, battery_capacity |-> 0, prop_diam |-> 0]

\* one pass of the loop body over item, from the flight variables v
physics_item(v, item) ==
    LET pt == item.part_type
        name == item.product_name
        w == item_weight(item)
        tw == IF pt_contains(pt, "motor") \/ pt_contains(pt, "prop")
              THEN v.total_weight + w * 4 ELSE v.total_weight + w
    IN  IF pt_contains(pt, "motor") THEN
            [v EXCEPT !.total_weight = tw,
                      !.motor_kv = IF v.motor_kv = 0 THEN name_kv(name) ELSE @,
                      !.max_thrust_per_motor = IF @ = 0 THEN name_thrust(name) ELSE @]
        ELSE IF pt_contains(pt, "battery") THEN
            [v EXCEPT !.total_weight = tw,
                      !.battery_voltage = IF @ = 0 THEN name_cells(name) * 37 ELSE @,
                      !.battery_capacity = IF @ = 0 THEN name_mah(name) ELSE @]
        ELSE IF pt_contains(pt, "prop") THEN
            [v EXCEPT !.total_weight = tw,
                      !.prop_diam = IF @ = 0 THEN diameter_mm(item) ELSE @]
        ELSE [v EXCEPT !.total_weight = tw]

RECURSIVE physics_loop(_, _)
\* the loop over bom_data, in list order
physics_loop(bom_data, v) ==
    IF bom_data = <<>> THEN v
    ELSE physics_loop(Tail(bom_data), physics_item(v, Head(bom_data)))

\* infer_voltage_from_kv, in tenths of a volt
infer_voltage_from_kv(kv) ==
    IF kv = 0 THEN 148
    ELSE IF kv > 12000 THEN 37
    ELSE IF kv > 5000 THEN 74
    ELSE IF kv > 2200 THEN 148
    ELSE 222

\* sim_input handed to calc_twr.py: the sanitised flight variables
sim_input(bom_data) ==
    LET v == physics_loop(bom_data, physics_vars0)
        total_weight == IF v.total_weight < 50 THEN 400 ELSE v.total_weight
        motor_kv == IF v.motor_kv = 0 THEN 1800 ELSE v.motor_kv
        battery_voltage == IF v.battery_voltage = 0 THEN infer_voltage_from_kv(motor_kv)
                           ELSE v.battery_voltage
        max_thrust == IF v.max_thrust_per_motor = 1000
                      THEN (1000 * battery_voltage) \div 160
                      ELSE v.max_thrust_per_motor
    IN  [total_weight_g |-> total_weight, max_thrust_g |-> max_thrust, num_motors |-> 4,
         battery_capacity_mah |-> IF v.battery_capacity = 0 THEN 1300 ELSE v.battery_capacity,
         motor_kv |-> motor_kv, voltage |-> battery_voltage]

\* the sim_input before any simulation ran
no_sim_data ==
    [total_weight_g |-> 0, max_thrust_g |-> 0, num_motors |-> 4,
     battery_capacity_mah |-> 0, motor_kv |-> 0, voltage |-> 0]

\* round(n / d, 2) in hundredths
round2(n, d) == (200 * n + d) \div (2 * d)

\* calculate_flight_characteristics; a ZeroDivisionError becomes the error report of __main__
calculate_flight_characteristics(data) ==
    LET total_thrust == data.max_thrust_g * data.num_motors
    IN  IF data.total_weight_g = 0 \/ total_thrust = 0
        THEN [error |-> TRUE, has_twr |-> FALSE, twr |-> 0, status |-> "none"]
        ELSE [error |-> FALSE, has_twr |-> TRUE,
              twr |-> round2(total_thrust, data.total_weight_g),
              status |-> IF 10 * total_thrust > 13 * data.total_weight_g
                         THEN "FLYABLE" ELSE "UNDERPOWERED"]

\* run_physics_simulation(bom_data)
run_physics_simulation(bom_data) ==
    IF bom_data = <<>>
    THEN [error |-> TRUE, has_twr |-> TRUE, twr |-> 0, status |-> "none"]
    ELSE calculate_flight_characteristics(sim_input(bom_data))

\* the report before any simulation ran
no_report == [error |-> FALSE, has_twr |-> FALSE, twr |-> 0, status |-> "none"]

\* physics_report.get('twr', 0)
report_twr(report) == IF report.has_twr THEN report.twr ELSE 0

(***************************************************************************)
(* extract_cad_params, generate_assets, run_geometric_simulation           *)
(***************************************************************************)
RECURSIVE last_diameter(_)
\* specs['prop_diameter_mm'] after the loop of extract_cad_params: the last truthy diameter_mm
last_diameter(bom) ==
    IF bom = <<>> THEN 0
    ELSE IF diameter_mm(bom[Len(bom)]) # 0 THEN diameter_mm(bom[Len(bom)])
    ELSE last_diameter(SubSeq(bom, 1, Len(bom) - 1))

\* extract_cad_params(bom); a prop_diameter_mm of 0 stands for the absent key
extract_cad_params(bom) ==
    [prop_diameter_mm |-> last_diameter(bom), fc_mounting_mm |-> 3050]

\* wheelbases (mm) the CAD service can settle on
Wheelbases == {225, 250}

\* the assets before generate_assets ran
no_assets ==
    [calculated_specs |-> [wheelbase |-> 0, prop_diameter_mm |-> 0, fc_mounting_mm |-> 0]]

\* the assets of the two-argument generate_assets(project_id, cad_specs) the task calls
calculated_assets(cad_specs, wheelbase) ==
    [calculated_specs |->
        [wheelbase |-> wheelbase,
         prop_diameter_mm |-> IF cad_specs.prop_diameter_mm = 0 THEN 12700
                              ELSE cad_specs.prop_diameter_mm,
         fc_mounting_mm |-> cad_specs.fc_mounting_mm]]

\* generate_assets(project_id, cad_specs): cad_service.generate_assets takes
\* (project_id, blueprint, bom), so the two-argument call raises TypeError there
generate_assets_outcomes(cad_specs) ==
    {[error |-> "TypeError", assets |-> no_assets]}
        \cup {[error |-> "none", assets |-> calculated_assets(cad_specs, w)] : w \in Wheelbases}

\* side_dist = wheelbase / 1.41421356 (1 / 1.41421356 = 0.707107), in
\* micrometres, for a wheelbase in millimetres
side_dist(wheelbase) == (wheelbase * 707107) \div 1000

\* round(gap, 2) of a gap in micrometres, in hundredths of a millimetre
round_gap(gap) == (gap + 5) \div 10

\* a simulation whose tight-gap warning also sets the status to FAIL
run_geometric_simulation_strict(specs) ==
    LET prop_gap == side_dist(specs.wheelbase) - 10 * specs.prop_diameter_mm
    IN  IF specs.prop_diameter_mm = 0
        THEN [status |-> "ZeroDivisionError", errors |-> <<>>, warnings |-> <<>>,
              prop_gap_mm |-> 0]
        ELSE [status |-> IF prop_gap < 5000 THEN "FAIL" ELSE "PASS",
              errors |-> IF prop_gap < 1000 THEN <<"CRITICAL: Propellers collide!">>
                         ELSE <<>>,
              warnings |-> IF prop_gap >= 1000 /\ prop_gap < 5000
                           THEN <<"Prop gap is extremely tight">> ELSE <<>>,
              prop_gap_mm |-> round_gap(prop_gap)]

\* run_geometric_simulation(specs, {}) of app/services: checks 1 and 2, and
\* the metrics, whose geometric_efficiency divides by prop_diam_mm
run_geometric_simulation(specs) ==
    LET prop_gap == side_dist(specs.wheelbase) - 10 * specs.prop_diameter_mm
        dist_center_to_front == (specs.fc_mounting_mm + 4500) \div 2
        motor_x == side_dist(specs.wheelbase) \div 2
        errors == IF prop_gap < 1000 THEN <<"CRITICAL: Propellers collide!">> ELSE <<>>
        gap_warnings == IF prop_gap < 1000 THEN <<>>
                        ELSE IF prop_gap < 5000 THEN <<"Prop gap is extremely tight">>
                        ELSE IF prop_gap > 50000 THEN <<"Frame is oversized for these props">>
                        ELSE <<>>
        fov_warnings == IF motor_x > 10 * (dist_center_to_front - 1000)
                        THEN <<"Props in View">> ELSE <<>>
    IN  IF specs.prop_diameter_mm = 0
        THEN [status |-> "ZeroDivisionError", errors |-> <<>>, warnings |-> <<>>,
              prop_gap_mm |-> 0]
        ELSE [status |-> IF prop_gap < 1000 THEN "FAIL" ELSE "PASS",
              errors |-> errors,
              warnings |-> gap_warnings \o fov_warnings,
              prop_gap_mm |-> round_gap(prop_gap)]

\* run_geometric_simulation(specs) of quad/app/services: a zero wheelbase or
\* prop diameter fails at once, then the prop clearance check
quad_run_geometric_simulation(specs) ==
    LET prop_tip_gap == side_dist(specs.wheelbase) - 10 * specs.prop_diameter_mm
    IN  IF specs.wheelbase = 0 \/ specs.prop_diameter_mm = 0
        THEN [status |-> "FAIL",
              errors |-> <<"CRITICAL: Wheelbase or Prop Diameter is zero.">>,
              warnings |-> <<>>, prop_gap_mm |-> 0]
        ELSE [status |-> IF prop_tip_gap < 2000 THEN "FAIL" ELSE "PASS",
              errors |-> IF prop_tip_gap < 2000
                         THEN <<"CRITICAL: Propellers collide or have insufficient clearance">>
                         ELSE <<>>,
              warnings |-> IF prop_tip_gap >= 2000 /\ prop_tip_gap < 10000
                           THEN <<"Prop clearance is tight">> ELSE <<>>,
              prop_gap_mm |-> round_gap(prop_tip_gap)]

\* the report before the geometric simulation ran
no_geo_report == [status |-> "none", errors |-> <<>>, warnings |-> <<>>, prop_gap_mm |-> 0]

(***************************************************************************)
(* The repair oracle: optimize_specs                                      *)
(***************************************************************************)
\* search queries a directive carries
Queries == {"q1"}

\* one entry of optimization_plan["replacements"]
Directives == [part_type : DirectiveCategories, new_search_query : Queries]

\* the replacements lists of at most MaxDirectives entries
ReplacementLists == UNION { [1..n -> Directives] : n \in 0..MaxDirectives }

\* what optimize_specs returns: None (call_llm_for_json failed or could not
\* parse the answer) or a plan
OptimizationPlans ==
    {[none |-> TRUE, replacements |-> <<>>]}
        \cup {[none |-> FALSE, replacements |-> r] : r \in ReplacementLists}

(***************************************************************************)
(* validate_and_finalize_build and merge_and_revalidate                    *)
(***************************************************************************)
\* a callback that takes every result into the BOM
successful_parts_unfiltered(bom_results) == bom_results

\* current_bom: the results without the failed and the raising searches
successful_parts(bom_results) ==
    SelectSeq(bom_results, LAMBDA item : item.status \notin {"failed", "error"})

\* full_bom of merge_and_revalidate
merge_and_revalidate(new_parts, kept) == kept \o new_parts

\* a chord that hands the results over in the order the tasks returned
chord_results_by_completion(header, order) ==
    [k \in 1..Len(order) |-> header[order[k]].result]

\* the results list a chord passes to its body: one entry per header task, in
\* header order, whatever the order the tasks returned in
chord_results(header, order) ==
    [i \in 1..Len(header) |-> header[i].result]

\* a chord starts its body once every header task returned
chord_ready(header) ==
    \A i \in 1..Len(header) : header[i].done

\* a repair that schedules the chord and falls through to Step 2
chord_return_fallthrough == "cad"

\* 'return chord(...).apply_async()': the running task ends, the chord is in flight
chord_return == "sourcing"

\* a callback that resumes a repaired build at Step 2
callback_entry_resume(cb) == IF cb = "merge_and_revalidate" THEN "cad" ELSE "numeric"

\* the gate a chord callback starts at: Step 1 of validate_and_finalize_build
callback_entry(cb) == "numeric"

\* an optimization gate whose threshold is exclusive
optimization_gate_exclusive(twr, iter) == twr <= 140 /\ iter <= 3

\* an optimization gate that allows one retry more
optimization_gate_4(twr, iter) == twr < 140 /\ iter <= 4

\* the optimization gate: 'twr < 1.4 and iteration <= 3'
optimization_gate(twr, iter) == twr < 140 /\ iter <= 3

\* types_to_remove
types_to_remove(repl) == { repl[i].part_type : i \in 1..Len(repl) }

\* a repair that leaves the replaced parts in place until a replacement is found
kept_parts_of_all(bom, repl) == bom

\* a filter that keeps the replaced parts instead of the others
kept_parts_of_inverted(bom, repl) ==
    SelectSeq(bom, LAMBDA p : p.part_type \in types_to_remove(repl))

\* kept_parts: the parts of current_bom no replacement names
kept_parts_of(bom, repl) ==
    SelectSeq(bom, LAMBDA p : p.part_type \notin types_to_remove(repl))

\* new_search_tasks: one signature per replacement
new_search_tasks(repl) ==
    [i \in 1..Len(repl) |-> signature(repl[i].part_type, repl[i].new_search_query)]

\* a geometric gate that loops back to the repair oracle while retries remain
after_geometric_repair(status, iter) ==
    IF status = "FAIL" /\ iter <= 3 THEN "oracle" ELSE "documentation"

\* where the task goes once the geometric report is in: it only logs, then Step 3
after_geometric(status, iter) == "documentation"

\* the master record before it is written
no_record == [status |-> "none", iterations_required |-> 0, bom |-> <<>>,
              numerical |-> no_report, geometric |-> no_geo_report]

\* the validation reports a master record holds, as history entries: the
\* "simulation" block of the last validation only; the record has no list of
\* iterations and no field for the replacements that were applied
record_history(rec) ==
    IF rec.status = "none" THEN <<>>
    ELSE <<[iteration |-> rec.iterations_required,
            report |-> [numerical |-> rec.numerical, geometric |-> rec.geometric]]>>

(***************************************************************************)
(* quad: generate_physics_config (quad/app/services/physics_service.py)    *)
(* and EngineeringOptimizer.analyze_and_fix (quad/app/services/optimizer.py)*)
(*                                                                         *)
(* A part is [part_type, weight_g, quantity, est_torque_kgcm,              *)
(* femur_length_mm, capacity_mah]; the last four are its engineering_specs *)
(* and 0 stands for an absent key.  Torques are hundredths of kg.cm,       *)
(* margins and payloads hundredths, runtimes tenths of a minute.           *)
(***************************************************************************)
\* 'word in part_type.lower()' for the part_type values of the quad BOMs
quad_contains(part_type, word) ==
    CASE word = "actuator" -> part_type = "Actuators"
      [] word = "chassis"  -> part_type = "Chassis_Kit"
      [] word = "battery"  -> part_type = "Battery"
      [] OTHER             -> FALSE

\* FALLBACK_WEIGHTS: the first key contained in the lower-case part_type, 0 if none
FALLBACK_WEIGHTS(part_type) ==
    CASE part_type = "Actuators"    -> 60
      [] part_type = "Chassis_Kit"  -> 450
      [] part_type = "Battery"      -> 250
      [] part_type = "Lidar_Module" -> 170
      [] OTHER                      -> 0

RECURSIVE total_g(_)
\* total_g of _calculate_auw(bom), before the 15% overhead
total_g(bom) ==
    IF bom = <<>> THEN 0
    ELSE LET item == Head(bom)
             weight == IF item.weight_g = 0 THEN FALLBACK_WEIGHTS(item.part_type)
                       ELSE item.weight_g
         IN  weight * item.quantity + total_g(Tail(bom))

\* the part generate_physics_config calls "none" when no item matches
no_part ==
    [part_type |-> "none", weight_g |-> 0, quantity |-> 0, est_torque_kgcm |-> 0,
     femur_length_mm |-> 0, capacity_mah |-> 0]

\* next((i for i in bom if word in i.get('part_type', '').lower()), None)
first_part(bom, word) ==
    IF \E i \in 1..Len(bom) : quad_contains(bom[i].part_type, word)
    THEN bom[CHOOSE i \in 1..Len(bom) :
                /\ quad_contains(bom[i].part_type, word)
                /\ \A j \in 1..(i - 1) : ~quad_contains(bom[j].part_type, word)]
    ELSE no_part

\* femur_mm: the chassis' femur_length_mm if it has one, else DEFAULT_FEMUR_LENGTH_MM
femur_mm(bom) ==
    IF first_part(bom, "chassis").femur_length_mm # 0
    THEN first_part(bom, "chassis").femur_length_mm ELSE 100

\* avail_torque, in hundredths of kg.cm
avail_torque(bom) == first_part(bom, "actuator").est_torque_kgcm

\* safety_margin = avail_torque / req_torque as the fraction margin_num / margin_den,
\* req_torque = (mass_kg / 2) * (femur_mm / 10) with mass_kg = total_g * 1.15 / 1000
margin_num(bom) == avail_torque(bom) * 4000
margin_den(bom) == 23 * total_g(bom) * femur_mm(bom)

\* round(n / d, 0) for n >= 0 and d > 0
round0(n, d) == (2 * n + d) \div (2 * d)

\* _calculate_runtime(battery, mass_kg) in tenths of a minute: 0 without a
\* battery or mass, else round(capacity_mah / 1000 / (mass_kg * 3) * 60, 1)
calculate_runtime(battery_item, grams) ==
    IF battery_item = no_part \/ grams = 0 THEN 0
    ELSE round0((IF battery_item.capacity_mah = 0 THEN 2200
                 ELSE battery_item.capacity_mah) * 4000, 23 * grams)

\* the physics_cfg before generate_physics_config ran
no_physics_cfg ==
    [safety_margin |-> 0, est_payload_capacity_kg |-> 0, is_mechanically_sound |-> FALSE,
     failure_mode |-> "none", est_runtime_min |-> 0, generated |-> FALSE]

\* generate_physics_config(bom): torque_physics, viability and meta of the config;
\* is_viable is decided on the unrounded safety_margin, the config holds round(.., 2)
generate_physics_config(bom) ==
    LET num == margin_num(bom)
        den == margin_den(bom)
        is_viable == den > 0 /\ 2 * num >= 3 * den
        payload_num == 8000 * avail_torque(bom) - 69 * total_g(bom) * femur_mm(bom)
    IN  [safety_margin |-> IF den > 0 THEN round0(100 * num, den) ELSE 0,
         est_payload_capacity_kg |-> IF payload_num <= 0 THEN 0
                                     ELSE round0(payload_num, 600 * femur_mm(bom)),
         is_mechanically_sound |-> is_viable,
         failure_mode |-> IF is_viable THEN "None" ELSE "Insufficient Torque",
         est_runtime_min |-> calculate_runtime(first_part(bom, "battery"), total_g(bom)),
         generated |-> TRUE]

\* one entry of optimization_plan; part_type "" stands for the absent key
fix(type, severity, part_type) ==
    [type |-> type, severity |-> severity, part_type |-> part_type]

\* fix_plan before analyze_and_fix ran, and its return value None
no_fix_plan == [none |-> TRUE, optimization_plan |-> <<>>]

\* an optimizer without the payload heuristic
analyze_and_fix_without_payload(bom, report) ==
    LET torque_fixes ==
            IF report.safety_margin < 150
            THEN <<fix("UPGRADE_PART",
                       IF report.safety_margin < 100 THEN "CRITICAL" ELSE "WARNING",
                       "Actuators"),
                   fix("MODIFY_GEOMETRY", "ADVISORY", "")>>
            ELSE <<>>
        runtime_fixes ==
            IF report.est_runtime_min < 150
            THEN <<fix("UPGRADE_PART", "WARNING", "Battery")>> ELSE <<>>
        fixes == torque_fixes \o runtime_fixes
    IN  IF fixes = <<>> THEN no_fix_plan
        ELSE [none |-> FALSE, optimization_plan |-> fixes]

\* EngineeringOptimizer.analyze_and_fix(current_bom, physics_report): the three
\* heuristics on the rounded values of the report; None when no fix was made
analyze_and_fix(bom, report) ==
    LET torque_fixes ==
            IF report.safety_margin < 150
            THEN <<fix("UPGRADE_PART",
                       IF report.safety_margin < 100 THEN "CRITICAL" ELSE "WARNING",
                       "Actuators"),
                   fix("MODIFY_GEOMETRY", "ADVISORY", "")>>
            ELSE <<>>
        payload_fixes ==
            IF report.est_payload_capacity_kg < 20
            THEN <<fix("WEIGHT_REDUCTION", "WARNING", "")>> ELSE <<>>
        runtime_fixes ==
            IF report.est_runtime_min < 150
            THEN <<fix("UPGRADE_PART", "WARNING", "Battery")>> ELSE <<>>
        fixes == torque_fixes \o payload_fixes \o runtime_fixes
    IN  IF fixes = <<>> THEN no_fix_plan
        ELSE [none |-> FALSE, optimization_plan |-> fixes]

\* forge.py is not running
forge_idle ==
    /\ forge_pc = "idle"
    /\ real_bom = <<>>
    /\ physics_cfg = no_physics_cfg
    /\ fix_plan = no_fix_plan

\* prof_grad_1.py and auto_engineer.py are not running
scripts_idle ==
    /\ prof_pc = "idle"
    /\ shopping_list = <<>>
    /\ kept_parts_cache = <<>>
    /\ sourced_items_log = <<>>
    /\ evo_pc = "idle"
    /\ heap = <<>>
    /\ current_specs = 0
    /\ generations = <<>>

(***************************************************************************)
(* The workflow                                                            *)
(***************************************************************************)
Init ==
    /\ pc = "start"
    /\ tasks = <<>>
    /\ kept_parts = <<>>
    /\ iteration = 0
    /\ current_bom = <<>>
    /\ physics_report = no_report
    /\ replacements = <<>>
    /\ assets = no_assets
    /\ geo_report = no_geo_report
    /\ master_record = no_record
    /\ task_error = "none"
    /\ callback = "none"
    /\ geo_service = "app"
    /\ sim_data = no_sim_data
    /\ completion = <<>>
    /\ history = <<>>
    /\ forge_idle
    /\ scripts_idle

\* start_drone_build: the spec sheet is None when the LLM call failed, else it
\* names a buy list; the chord of sourcing tasks is started with iteration 1
StartDroneBuild ==
    /\ pc = "start"
    /\ \/ /\ pc' = "done"
          /\ task_error' = "AttributeError"
          /\ history' = Append(history, "ERROR")
          /\ UNCHANGED <<tasks, iteration, callback>>
       \/ \E buy_list \in BuyLists :
            /\ tasks' = [i \in 1..Len(buy_list) |-> signature(buy_list[i], "q0")]
            /\ callback' = "validate_and_finalize_build"
            /\ iteration' = 1
            /\ pc' = "sourcing"
            /\ history' = Append(history, "SOURCING")
            /\ UNCHANGED task_error
    /\ UNCHANGED <<kept_parts, current_bom, physics_report, replacements, assets,
                   geo_report, master_record, sim_data, completion>>
    /\ UNCHANGED <<geo_service, forge_vars, script_vars>>

\* source_component_task: one header task of the chord returns
SourceComponent ==
    /\ pc = "sourcing"
    /\ \E i \in 1..Len(tasks) :
         /\ ~tasks[i].done
         /\ ~tasks[i].hung
         /\ \E r \in source_component_results(tasks[i].part_type) :
              tasks' = [tasks EXCEPT ![i] = [@ EXCEPT !.done = TRUE, !.result = r]]
         /\ completion' = Append(completion, i)
    /\ UNCHANGED <<pc, kept_parts, iteration, current_bom, physics_report, replacements,
                   assets, geo_report, master_record, task_error, callback, sim_data,
                   history>>
    /\ UNCHANGED <<geo_service, forge_vars, script_vars>>

\* source_component_task: the search of one header task blocks for good (the
\* search request carries no timeout and the worker sets no task time limit)
SourceComponentHangs ==
    /\ pc = "sourcing"
    /\ \E i \in 1..Len(tasks) :
         /\ ~tasks[i].done
         /\ ~tasks[i].hung
         /\ tasks' = [tasks EXCEPT ![i] = [@ EXCEPT !.hung = TRUE]]
    /\ UNCHANGED <<pc, kept_parts, iteration, current_bom, physics_report, replacements,
                   assets, geo_report, master_record, task_error, callback, sim_data,
                   completion, history>>
    /\ UNCHANGED <<geo_service, forge_vars, script_vars>>

\* the chord body runs once every header task returned: merge_and_revalidate
\* (repair chord) or validate_and_finalize_build directly; successful parts are filtered
ChordCallback ==
    /\ pc = "sourcing"
    /\ chord_ready(tasks)
    /\ LET results == chord_results(tasks, completion)
           bom_results == IF callback = "merge_and_revalidate"
                          THEN merge_and_revalidate(results, kept_parts)
                          ELSE results
       IN  current_bom' = successful_parts(bom_results)
    /\ tasks' = <<>>
    /\ completion' = <<>>
    /\ pc' = callback_entry(callback)
    /\ UNCHANGED <<kept_parts, iteration, physics_report, replacements, assets,
                   geo_report, master_record, task_error, callback, sim_data,
                   history>>
    /\ UNCHANGED <<geo_service, forge_vars, script_vars>>

\* Step 1: the numeric gate
NumericGate ==
    /\ pc = "numeric"
    /\ physics_report' = run_physics_simulation(current_bom)
    /\ sim_data' = IF current_bom = <<>> THEN sim_data ELSE sim_input(current_bom)
    /\ pc' = IF optimization_gate(report_twr(physics_report'), iteration)
             THEN "oracle" ELSE "cad"
    /\ history' = Append(history, "NUMERIC")
    /\ UNCHANGED <<tasks, kept_parts, iteration, current_bom, replacements, assets,
                   geo_report, master_record, task_error, callback, completion>>
    /\ UNCHANGED <<geo_service, forge_vars, script_vars>>

\* optimize_specs returns; a plan of None raises on '.get', an empty replacements
\* list falls through to Step 2, anything else starts the repair chord
OptimizeSpecs ==
    /\ pc = "oracle"
    /\ \E plan \in OptimizationPlans :
         IF plan.none THEN
            /\ pc' = "done"
            /\ task_error' = "AttributeError"
            /\ history' = history \o <<"ORACLE", "ERROR">>
            /\ UNCHANGED <<tasks, kept_parts, iteration, replacements, callback>>
         ELSE IF plan.replacements = <<>> THEN
            /\ pc' = "cad"
            /\ history' = Append(history, "ORACLE")
            /\ UNCHANGED <<tasks, kept_parts, iteration, replacements, callback, task_error>>
         ELSE
            /\ replacements' = plan.replacements
            /\ kept_parts' = kept_parts_of(current_bom, plan.replacements)
            /\ tasks' = new_search_tasks(plan.replacements)
            /\ iteration' = iteration + 1
            /\ callback' = "merge_and_revalidate"
            /\ pc' = chord_return
            /\ history' = history \o <<"ORACLE", "SOURCING">>
            /\ UNCHANGED task_error
    /\ UNCHANGED <<current_bom, physics_report, assets, geo_report, master_record,
                   sim_data, completion>>
    /\ UNCHANGED <<geo_service, forge_vars, script_vars>>

\* Step 2, first half: extract_cad_params and generate_assets
GenerateAssets ==
    /\ pc = "cad"
    /\ \E out \in generate_assets_outcomes(extract_cad_params(current_bom)) :
         /\ assets' = out.assets
         /\ task_error' = out.error
         /\ pc' = IF out.error = "none" THEN "geo" ELSE "done"
         /\ history' = IF out.error = "none" THEN Append(history, "CAD")
                       ELSE history \o <<"CAD", "ERROR">>
    /\ UNCHANGED <<tasks, kept_parts, iteration, current_bom, physics_report, replacements,
                   geo_report, master_record, callback, sim_data, completion>>
    /\ UNCHANGED <<geo_service, forge_vars, script_vars>>

\* Step 2, second half: the geometric gate
GeometricGate ==
    /\ pc = "geo"
    /\ geo_report' = run_geometric_simulation(assets.calculated_specs)
    /\ IF geo_report'.status = "ZeroDivisionError"
       THEN /\ pc' = "done"
            /\ task_error' = "ZeroDivisionError"
            /\ history' = history \o <<"GEOMETRIC", "ERROR">>
       ELSE /\ pc' = after_geometric(geo_report'.status, iteration)
            /\ history' = Append(history, "GEOMETRIC")
            /\ UNCHANGED task_error
    /\ UNCHANGED <<tasks, kept_parts, iteration, current_bom, physics_report, replacements,
                   assets, master_record, callback, sim_data, completion>>
    /\ UNCHANGED <<geo_service, forge_vars, script_vars>>

\* Step 3: documentation and the master record
Finalize ==
    /\ pc = "documentation"
    /\ master_record' = [status |-> "COMPLETE", iterations_required |-> iteration,
                         bom |-> current_bom, numerical |-> physics_report,
                         geometric |-> geo_report]
    /\ pc' = "done"
    /\ history' = Append(history, "COMPLETE")
    /\ UNCHANGED <<tasks, kept_parts, iteration, current_bom, physics_report, replacements,
                   assets, geo_report, task_error, callback, sim_data, completion>>
    /\ UNCHANGED <<geo_service, forge_vars, script_vars>>

Next ==
    \/ StartDroneBuild
    \/ SourceComponent
    \/ SourceComponentHangs
    \/ ChordCallback
    \/ NumericGate
    \/ OptimizeSpecs
    \/ GenerateAssets
    \/ GeometricGate
    \/ Finalize

Spec == Init /\ [][Next]_vars

(***************************************************************************)
(* calc_twr.py and the optimization gate on their own                      *)
(***************************************************************************)
\* max_thrust_g values: 0 and 1150, 1160, ... grams per motor
ThrustInputs == {0} \cup { 1150 + 10 * k : k \in 0..MaxThrustStep }

\* total_weight_g values: 0 and 3400, 3410, ... grams
WeightInputs == {0} \cup { 3400 + 10 * k : k \in 0..MaxWeightStep }

\* the sim_input values calc_twr.py is run on
SimInputs ==
    { [total_weight_g |-> w, max_thrust_g |-> t, num_motors |-> 4,
       battery_capacity_mah |-> 1300, motor_kv |-> 1800, voltage |-> 148] :
          w \in WeightInputs, t \in ThrustInputs }

\* validate_and_finalize_build at Step 1 of any iteration, with the flight
\* variables of its BOM
InitNumeric ==
    /\ pc = "numeric"
    /\ tasks = <<>>
    /\ kept_parts = <<>>
    /\ iteration \in 1..4
    /\ current_bom = <<>>
    /\ physics_report = no_report
    /\ replacements = <<>>
    /\ assets = no_assets
    /\ geo_report = no_geo_report
    /\ master_record = no_record
    /\ task_error = "none"
    /\ callback = "validate_and_finalize_build"
    /\ geo_service = "app"
    /\ sim_data \in SimInputs
    /\ completion = <<>>
    /\ history = <<"SOURCING">>
    /\ forge_idle
    /\ scripts_idle

\* calc_twr.py scores sim_data and the optimization gate decides on the twr
CalcTwr ==
    /\ pc = "numeric"
    /\ physics_report' = calculate_flight_characteristics(sim_data)
    /\ pc' = IF optimization_gate(report_twr(physics_report'), iteration)
             THEN "oracle" ELSE "cad"
    /\ history' = Append(history, "NUMERIC")
    /\ UNCHANGED <<tasks, kept_parts, iteration, current_bom, replacements, assets,
                   geo_report, master_record, task_error, callback, sim_data, completion>>
    /\ UNCHANGED <<geo_service, forge_vars, script_vars>>

NextNumeric == CalcTwr

SpecNumeric == InitNumeric /\ [][NextNumeric]_vars

(***************************************************************************)
(* run_geometric_simulation on its own, in both services                   *)
(***************************************************************************)
\* wheelbase values (mm): 0 and 225, 250, ...
SpanInputs == {0} \cup { 225 + 25 * k : k \in 0..MaxSpanStep }

\* prop_diameter_mm values (hundredths of mm): 0, 127 mm and 155, 156, ... mm
SizeInputs == {0, 12700} \cup { 100 * (155 + k) : k \in 0..MaxSizeStep }

\* the specs run_geometric_simulation is called with
GeometryInputs ==
    { [wheelbase |-> w, prop_diameter_mm |-> d, fc_mounting_mm |-> 3050] :
          w \in SpanInputs, d \in SizeInputs }

\* a caller about to run the geometric simulation of either service on specs
InitGeometric ==
    /\ pc = "geo"
    /\ tasks = <<>>
    /\ kept_parts = <<>>
    /\ iteration = 1
    /\ current_bom = <<>>
    /\ physics_report = no_report
    /\ replacements = <<>>
    /\ \E specs \in GeometryInputs : assets = [calculated_specs |-> specs]
    /\ geo_report = no_geo_report
    /\ master_record = no_record
    /\ task_error = "none"
    /\ callback = "validate_and_finalize_build"
    /\ geo_service \in {"app", "quad"}
    /\ sim_data = no_sim_data
    /\ completion = <<>>
    /\ history = <<"SOURCING", "NUMERIC", "CAD">>
    /\ forge_idle
    /\ scripts_idle

\* run_geometric_simulation of the service in use returns its report or raises
RunGeometricSimulation ==
    /\ pc = "geo"
    /\ geo_report' = IF geo_service = "app"
                     THEN run_geometric_simulation(assets.calculated_specs)
                     ELSE quad_run_geometric_simulation(assets.calculated_specs)
    /\ pc' = "done"
    /\ task_error' = IF geo_report'.status = "ZeroDivisionError"
                     THEN "ZeroDivisionError" ELSE "none"
    /\ history' = Append(history, "GEOMETRIC")
    /\ UNCHANGED <<tasks, kept_parts, iteration, current_bom, physics_report, replacements,
                   assets, master_record, callback, geo_service, sim_data, completion>>
    /\ UNCHANGED <<forge_vars, script_vars>>

NextGeometric == RunGeometricSimulation

SpecGeometric == InitGeometric /\ [][NextGeometric]_vars

(***************************************************************************)
(* quad/forge.py: validation and optimization of one campaign              *)
(***************************************************************************)
\* part_type values of a kit, in kit order
QuadTopology == <<"Actuators", "Chassis_Kit", "Battery", "Lidar_Module", "Gripper">>

\* est_torque_kgcm values (hundredths of kg.cm) of the servos on offer, 0 for none stated
TorqueInputs == {0, 800, 815, 820, 1215, 1223, 1226, 2500}

\* a sourced part with the given engineering_specs and no weight_g
quad_part(part_type, quantity, torque, femur, capacity) ==
    [part_type |-> part_type, weight_g |-> 0, quantity |-> quantity,
     est_torque_kgcm |-> torque, femur_length_mm |-> femur, capacity_mah |-> capacity]

\* the parts the sourcing loop can put into real_bom for a part_type
QuadProducts(part_type) ==
    CASE part_type = "Actuators"   ->
            { quad_part(part_type, 12, t, 0, 0) : t \in TorqueInputs }
      [] part_type = "Chassis_Kit" ->
            { quad_part(part_type, 1, 0, f, 0) : f \in {0, 120} }
      [] part_type = "Battery"     ->
            { quad_part(part_type, 1, 0, 0, c) : c \in {0, 1000} }
      [] OTHER                     -> { quad_part(part_type, 1, 0, 0, 0) }

\* the BOMs of a kit: for each of its part_types one product, or nothing
QuadBoms ==
    UNION { { SelectSeq(kit, LAMBDA part : part # no_part) :
                kit \in { k \in [1..n -> UNION { QuadProducts(QuadTopology[i]) : i \in 1..n }
                                           \cup {no_part}] :
                            \A i \in 1..n : k[i] = no_part
                                               \/ k[i] \in QuadProducts(QuadTopology[i]) } } :
            n \in 0..MaxQuadBom }

\* forge.py main after Step 4 of a campaign: real_bom is sourced
InitForge ==
    /\ pc = "start"
    /\ tasks = <<>>
    /\ kept_parts = <<>>
    /\ iteration = 0
    /\ current_bom = <<>>
    /\ physics_report = no_report
    /\ replacements = <<>>
    /\ assets = no_assets
    /\ geo_report = no_geo_report
    /\ master_record = no_record
    /\ task_error = "none"
    /\ callback = "none"
    /\ geo_service = "quad"
    /\ sim_data = no_sim_data
    /\ completion = <<>>
    /\ history = <<>>
    /\ forge_pc = "validation"
    /\ real_bom \in QuadBoms
    /\ physics_cfg = no_physics_cfg
    /\ fix_plan = no_fix_plan
    /\ scripts_idle

\* the variables of the Celery workflow
workflow_vars ==
    <<pc, tasks, kept_parts, iteration, current_bom, physics_report, replacements, assets,
      geo_report, master_record, task_error, callback, geo_service, sim_data, completion,
      history>>

\* Step 5 and the test of Step 6: generate_physics_config and validate_build
\* return; the optimizer is engaged unless both are satisfied
ValidateBuild ==
    /\ forge_pc = "validation"
    /\ physics_cfg' = generate_physics_config(real_bom)
    /\ \E compat_valid \in BOOLEAN :
         forge_pc' = IF ~physics_cfg'.is_mechanically_sound \/ ~compat_valid
                     THEN "optimization" ELSE "artifacts"
    /\ UNCHANGED <<real_bom, fix_plan, workflow_vars, script_vars>>

\* Step 6: analyze_and_fix; a plan forces the safety_margin of physics_cfg to 2.0
OptimizeDesign ==
    /\ forge_pc = "optimization"
    /\ fix_plan' = analyze_and_fix(real_bom, physics_cfg)
    /\ physics_cfg' = IF fix_plan'.none THEN physics_cfg
                      ELSE [physics_cfg EXCEPT !.safety_margin = 200]
    /\ forge_pc' = "artifacts"
    /\ UNCHANGED <<real_bom, workflow_vars, script_vars>>

NextForge ==
    \/ ValidateBuild
    \/ OptimizeDesign

SpecForge == InitForge /\ [][NextForge]_vars

(***************************************************************************)
(* scripts/prof_grad_1.py: the sourcing loop of the professional flow      *)
(***************************************************************************)
\* max_iterations of main
max_iterations == 3

\* an item of shopping_list; new_search_query "" stands for the absent key
shopping_item(part_type, new_search_query) ==
    [part_type |-> part_type, new_search_query |-> new_search_query]

\* the buy_list of the spec sheet: items without new_search_query
ProfBuyLists ==
    { [i \in 1..n |-> shopping_item(TopologyOrder[i], "")] : n \in 0..MaxBuyList }

\* the replacements optimize_specs can name, with or without a new_search_query
ProfDirectives == { shopping_item(pt, q) : pt \in DirectiveCategories, q \in Queries \cup {""} }

\* what optimize_specs can return: None, or a fix with its replacements
ProfFixes ==
    {[none |-> TRUE, replacements |-> <<>>]}
        \cup { [none |-> FALSE, replacements |-> r] :
                  r \in UNION { [1..n -> ProfDirectives] : n \in 0..MaxDirectives } }

\* pt in kept_parts_cache
cache_has(cache, pt) == \E i \in 1..Len(cache) : cache[i].part_type = pt

\* kept_parts_cache[pt]
cache_get(cache, pt) == cache[CHOOSE i \in 1..Len(cache) : cache[i].part_type = pt]

\* kept_parts_cache[pt] = part
cache_put(cache, part) ==
    IF cache_has(cache, part.part_type)
    THEN [i \in 1..Len(cache) |-> IF cache[i].part_type = part.part_type THEN part
                                  ELSE cache[i]]
    ELSE Append(cache, part)

\* what fuse_component_data returns for the items of a list: for each position
\* a product title, or "" for None
FuseResults(list) ==
    { found \in [1..Len(list) ->
                  UNION { ProductsFor(list[i].part_type) : i \in 1..Len(list) } \cup {""}] :
        \A i \in 1..Len(list) : found[i] \in ProductsFor(list[i].part_type) \cup {""} }

\* one pass of the for loop of step A over item, with found the result of the search
source_item(acc, item, found) ==
    LET pt == item.part_type
    IN  IF cache_has(acc.cache, pt) /\ item.new_search_query = ""
        THEN [bom |-> Append(acc.bom, cache_get(acc.cache, pt)), cache |-> acc.cache,
              log |-> Append(acc.log, [part |-> pt, source |-> "cache"])]
        ELSE LET part == IF found # "" THEN composite_part(pt, found)
                         ELSE composite_part(pt, "Generic")
             IN  [bom |-> Append(acc.bom, part), cache |-> cache_put(acc.cache, part),
                  log |-> Append(acc.log,
                                 [part |-> pt,
                                  source |-> IF found # "" THEN "fresh_search"
                                             ELSE "fallback"])]

RECURSIVE source_items(_, _, _, _)
\* the for loop of step A over list[i..], in list order
source_items(list, found, i, acc) ==
    IF i > Len(list) THEN acc
    ELSE source_items(list, found, i + 1, source_item(acc, list[i], found[i]))

\* main before the while loop
InitProf ==
    /\ pc = "start"
    /\ tasks = <<>>
    /\ kept_parts = <<>>
    /\ iteration = 0
    /\ current_bom = <<>>
    /\ physics_report = no_report
    /\ replacements = <<>>
    /\ assets = no_assets
    /\ geo_report = no_geo_report
    /\ master_record = no_record
    /\ task_error = "none"
    /\ callback = "none"
    /\ geo_service = "app"
    /\ sim_data = no_sim_data
    /\ completion = <<>>
    /\ history = <<>>
    /\ forge_idle
    /\ prof_pc = "sourcing"
    /\ shopping_list \in ProfBuyLists
    /\ kept_parts_cache = <<>>
    /\ sourced_items_log = <<>>
    /\ evo_pc = "idle"
    /\ heap = <<>>
    /\ current_specs = 0
    /\ generations = <<>>

\* what the script leaves alone
prof_frame ==
    <<pc, tasks, kept_parts, replacements, master_record, callback, geo_service, sim_data,
      completion, history, forge_vars, evo_vars>>

\* "continue": the while condition decides between the next iteration and the end
prof_continue == IF iteration < max_iterations THEN "sourcing" ELSE "done"

\* the fix of optimize_specs is applied: fix.get() raises on None, an empty
\* replacements list ends the loop when stop_on_empty, else shopping_list is replaced
apply_fix(plan, stop_on_empty) ==
    IF plan.none THEN
        /\ prof_pc' = "crashed"
        /\ task_error' = "AttributeError"
        /\ UNCHANGED shopping_list
    ELSE IF stop_on_empty /\ plan.replacements = <<>> THEN
        /\ prof_pc' = "done"
        /\ UNCHANGED <<shopping_list, task_error>>
    ELSE
        /\ shopping_list' = plan.replacements
        /\ prof_pc' = prof_continue
        /\ UNCHANGED task_error

\* step A of one iteration: iteration += 1 and the for loop over shopping_list
ProfSource ==
    /\ prof_pc = "sourcing"
    /\ iteration' = iteration + 1
    /\ \E found \in FuseResults(shopping_list) :
         LET acc == source_items(shopping_list, found, 1,
                                 [bom |-> <<>>, cache |-> kept_parts_cache, log |-> <<>>])
         IN  /\ current_bom' = acc.bom
             /\ kept_parts_cache' = acc.cache
             /\ sourced_items_log' = acc.log
    /\ prof_pc' = "numeric"
    /\ UNCHANGED <<shopping_list, physics_report, assets, geo_report, task_error, prof_frame>>

\* step B: the numerical simulation; phys_report['twr'] raises KeyError on a
\* report without twr, a twr below 1.3 asks optimize_specs for a fix
ProfNumeric ==
    /\ prof_pc = "numeric"
    /\ physics_report' = run_physics_simulation(current_bom)
    /\ IF ~physics_report'.has_twr THEN
          /\ prof_pc' = "crashed"
          /\ task_error' = "KeyError"
          /\ UNCHANGED shopping_list
       ELSE IF physics_report'.twr < 130 THEN
          \E plan \in ProfFixes : apply_fix(plan, FALSE)
       ELSE
          /\ prof_pc' = "cad"
          /\ UNCHANGED <<shopping_list, task_error>>
    /\ UNCHANGED <<iteration, current_bom, kept_parts_cache, sourced_items_log, assets,
                   geo_report, prof_frame>>

\* steps C to E: CAD (wheelbase 225 in iteration 1) and the geometric
\* simulation; a FAIL asks optimize_specs for a fix, a PASS verifies the build
ProfGeometric ==
    /\ prof_pc = "cad"
    /\ \E out \in generate_assets_outcomes(extract_cad_params(current_bom)) :
         /\ iteration = 1 /\ out.error = "none" => out.assets.calculated_specs.wheelbase = 225
         /\ assets' = out.assets
         /\ IF out.error # "none" THEN
               /\ prof_pc' = "crashed"
               /\ task_error' = out.error
               /\ UNCHANGED <<geo_report, shopping_list>>
            ELSE
               /\ geo_report' = run_geometric_simulation(out.assets.calculated_specs)
               /\ IF geo_report'.status = "ZeroDivisionError" THEN
                     /\ prof_pc' = "crashed"
                     /\ task_error' = "ZeroDivisionError"
                     /\ UNCHANGED shopping_list
                  ELSE IF geo_report'.status = "FAIL" THEN
                     \E plan \in ProfFixes : apply_fix(plan, TRUE)
                  ELSE
                     /\ prof_pc' = "verified"
                     /\ UNCHANGED <<shopping_list, task_error>>
    /\ UNCHANGED <<iteration, current_bom, physics_report, kept_parts_cache,
                   sourced_items_log, prof_frame>>

NextProf ==
    \/ ProfSource
    \/ ProfNumeric
    \/ ProfGeometric

SpecProf == InitProf /\ [][NextProf]_vars

(***************************************************************************)
(* auto_engineer.py and app/services/optimizer.py: the evolution loop.     *)
(* A dict is an object on the heap; a variable or a list entry holds its   *)
(* identity (its position in heap). A name "Prototype_V1_Turbo_V2" is the  *)
(* sequence of its suffixes after the base: n for "_Vn", 0 for "_Turbo".   *)
(* Lengths are in tenths.                                                  *)
(***************************************************************************)
MAX_ITERATIONS == 5

\* the seed design
seed_specs == [name |-> <<1>>, motor_mount_mm |-> 160, prop_diameter_inch |-> 40]

\* hover_throttle_pct values a flight test can report
HoverInputs == {100, 500, 620, 700}

\* the results of run_acrobatic_show
FlightResults == [status : {"PASS", "FAIL"}, hover_throttle_pct : HoverInputs]

\* _increment_version(name): the text after the last "_V" plus one if it is
\* an integer, else the name with "_V2" appended
increment_version(name) ==
    IF name[Len(name)] # 0 THEN [name EXCEPT ![Len(name)] = @ + 1]
    ELSE Append(name, 2)

\* the assignments analyze_and_fix makes to new_specs, on the dict value specs
mutated_specs(specs, flight_report) ==
    LET overweight == flight_report.hover_throttle_pct > 650
        crashed == flight_report.status = "FAIL"
        grown == IF overweight
                 THEN [specs EXCEPT !.prop_diameter_inch = @ + 1] ELSE specs
        turbo == IF crashed
                 THEN [grown EXCEPT !.name = Append(@, 0), !.motor_mount_mm = 190]
                 ELSE grown
    IN  [turbo EXCEPT !.name = increment_version(@)]

\* "if not fixes": none of the three heuristics made an entry
no_fixes(flight_report) ==
    /\ ~(flight_report.hover_throttle_pct > 650)
    /\ flight_report.status # "FAIL"
    /\ ~(0 < flight_report.hover_throttle_pct /\ flight_report.hover_throttle_pct < 150)

\* an optimizer that works on current_specs itself
analyze_specs_in_place(h, specs_id, flight_report) ==
    IF no_fixes(flight_report) THEN [none |-> TRUE, heap |-> h, new_specs |-> 0]
    ELSE [none |-> FALSE,
          heap |-> [h EXCEPT ![specs_id] = mutated_specs(@, flight_report)],
          new_specs |-> specs_id]

\* EngineeringOptimizer.analyze_and_fix(current_specs, flight_report) of
\* app/services/optimizer.py on the heap h: new_specs is a deep copy, a new
\* object, and all assignments go to it; None when there are no fixes
analyze_specs(h, specs_id, flight_report) ==
    IF no_fixes(flight_report) THEN [none |-> TRUE, heap |-> h, new_specs |-> 0]
    ELSE [none |-> FALSE,
          heap |-> Append(h, mutated_specs(h[specs_id], flight_report)),
          new_specs |-> Len(h) + 1]

\* main before the for loop
InitEvolution ==
    /\ pc = "start"
    /\ tasks = <<>>
    /\ kept_parts = <<>>
    /\ iteration = 1
    /\ current_bom = <<>>
    /\ physics_report = no_report
    /\ replacements = <<>>
    /\ assets = no_assets
    /\ geo_report = no_geo_report
    /\ master_record = no_record
    /\ task_error = "none"
    /\ callback = "none"
    /\ geo_service = "app"
    /\ sim_data = no_sim_data
    /\ completion = <<>>
    /\ history = <<>>
    /\ forge_idle
    /\ prof_pc = "idle"
    /\ shopping_list = <<>>
    /\ kept_parts_cache = <<>>
    /\ sourced_items_log = <<>>
    /\ evo_pc = "generation"
    /\ heap = <<seed_specs>>
    /\ current_specs = 1
    /\ generations = <<>>

\* what auto_engineer.py leaves alone
evo_frame ==
    <<pc, tasks, kept_parts, current_bom, physics_report, replacements, assets, geo_report,
      master_record, task_error, callback, geo_service, sim_data, completion, history,
      forge_vars, prof_vars>>

\* one pass of the for loop: fabrication (an exception ends the loop), the
\* flight test, the master record (written to master_dna.json as dna and
\* appended to history with the specs object itself), the convergence test
\* and the mutation
EvolveGeneration ==
    /\ evo_pc = "generation"
    /\ \E fabricated \in BOOLEAN, results \in FlightResults :
         IF ~fabricated THEN
            /\ evo_pc' = "done"
            /\ UNCHANGED <<heap, current_specs, generations, iteration>>
         ELSE
            /\ generations' = Append(generations,
                                     [generation |-> iteration, specs |-> current_specs,
                                      dna |-> heap[current_specs]])
            /\ IF results.status = "PASS" /\ results.hover_throttle_pct < 600 THEN
                  /\ evo_pc' = "done"
                  /\ UNCHANGED <<heap, current_specs, iteration>>
               ELSE
                  LET optimization == analyze_specs(heap, current_specs, results)
                  IN  IF optimization.none THEN
                         /\ evo_pc' = "done"
                         /\ UNCHANGED <<heap, current_specs, iteration>>
                      ELSE
                         /\ heap' = optimization.heap
                         /\ current_specs' = optimization.new_specs
                         /\ IF iteration = MAX_ITERATIONS
                            THEN evo_pc' = "done" /\ UNCHANGED iteration
                            ELSE evo_pc' = "generation" /\ iteration' = iteration + 1
    /\ UNCHANGED evo_frame

NextEvolution == EvolveGeneration

SpecEvolution == InitEvolution /\ [][NextEvolution]_vars

(***************************************************************************)
(* Terms of the claims                                                     *)
(***************************************************************************)
\* the numeric gate's verdict on a report: PASS iff it carries a twr of at least 1.4
numeric_pass(report) == report.has_twr /\ report.twr >= 140

\* the outcome a finished build reports: the master record (status COMPLETE)
\* is the only record the task writes; a raised exception is no outcome
outcome ==
    IF master_record.status = "COMPLETE" THEN "CONVERGED"
    ELSE IF task_error # "none" THEN "ERROR"
    ELSE "none"

\* number of entries of the history equal to ev
RECURSIVE count(_, _)
count(h, ev) ==
    IF h = <<>> THEN 0
    ELSE (IF Head(h) = ev THEN 1 ELSE 0) + count(Tail(h), ev)

\* the history has event a directly followed by event b
followed_by(a, b) ==
    \E i \in 1..(Len(history) - 1) : history[i] = a /\ history[i + 1] = b

\* the part_type values of a list of parts or signatures
part_types(list) == { list[i].part_type : i \in 1..Len(list) }

\* the parts of a list
parts(list) == { list[i] : i \in 1..Len(list) }

C2_AtMostOnePartPerCategory ==
    \A i, j \in 1..Len(current_bom) :
        i # j => current_bom[i].part_type # current_bom[j].part_type

(***************************************************************************)
(* C3                                                                      *)
(***************************************************************************)
\* C3: when a repair is applied, the sourcing tasks started are exactly those
\* of the part_types the replacements name, and the BOM validated next holds
\* every part of the previous BOM whose part_type no replacement names,
\* unchanged, next to parts of named part_types only.
C3_RepairTouchesOnlyNamedCategories ==
    [][ /\ (pc = "oracle" /\ pc' = "sourcing") =>
              /\ part_types(tasks') = types_to_remove(replacements')
              /\ Len(tasks') = Len(replacements')
        /\ (pc = "sourcing" /\ pc' # "sourcing" /\ callback = "merge_and_revalidate") =>
              /\ \A p \in parts(current_bom) :
                    p.part_type \notin types_to_remove(replacements)
                        => p \in parts(current_bom')
              /\ \A p \in parts(current_bom') :
                    \/ p.part_type \in types_to_remove(replacements)
                    \/ p \in parts(current_bom)
      ]_vars

\* a repaired BOM under validation that holds a carried-over part and a re-sourced one
C3_Witness ==
    /\ pc = "numeric"
    /\ iteration = 2
    /\ \E p \in parts(current_bom) : p.part_type \notin types_to_remove(replacements)
    /\ \E p \in parts(current_bom) : p.part_type \in types_to_remove(replacements)

C5_GeometricOnlyAfterNumericPass ==
    (pc \in {"cad", "geo"} \/ geo_report.status # "none") => numeric_pass(physics_report)

starts_sourcing == pc # "sourcing" /\ pc' = "sourcing"

C8_ScenarioE ==
    /\ iteration <= 3
    /\ (/\ iteration = 3
        /\ pc \notin {"sourcing", "numeric"}
        /\ ~numeric_pass(physics_report))
          => /\ pc = "done"
             /\ outcome = "EXHAUSTED"
             /\ master_record.bom = current_bom

(***************************************************************************)
(* C9                                                                      *)
(***************************************************************************)
\* the oracle answered with an empty replacements list: its call is followed
\* neither by a sourcing round nor by the error of a missing plan
empty_directives ==
    \E i \in 1..Len(history) :
        /\ history[i] = "ORACLE"
        /\ i < Len(history) => history[i + 1] \notin {"SOURCING", "ERROR"}

\* C9: Scenario D.  An empty directive list ends the build at once: the
\* outcome is ABORTED, no sourcing starts and no further step runs.
C9_ScenarioD ==
    empty_directives =>
        /\ pc = "done"
        /\ outcome = "ABORTED"

(***************************************************************************)
(* C10                                                                     *)
(***************************************************************************)
\* optimize_specs yielded no plan
oracle_failed == followed_by("ORACLE", "ERROR")

\* C10: when optimize_specs yields no plan the validation task raises nothing
\* and the build ends with outcome ABORTED.
C10_OracleErrorAborts ==
    oracle_failed => (task_error = "none" /\ outcome = "ABORTED")

(***************************************************************************)
(* C11                                                                     *)
(***************************************************************************)
\* C11: every build whose chord was started ends, after at most three repair
\* rounds, in a terminal state with a diagnosable outcome (CONVERGED,
\* EXHAUSTED or ABORTED); no task of it ends on an unhandled exception.
C11_TerminalOutcomeDiagnosable ==
    /\ iteration <= 4
    /\ count(history, "SOURCING") <= 4
    /\ (pc = "done" /\ iteration >= 1) =>
          /\ task_error = "none"
          /\ outcome \in {"CONVERGED", "EXHAUSTED", "ABORTED"}

(***************************************************************************)
(* C12                                                                     *)
(***************************************************************************)
\* the step in which the chord body takes over the results of the header
chord_body_starts == pc = "sourcing" /\ pc' # "sourcing"

\* C12: when the body of a chord runs, every header task has returned whatever
\* the others returned, every part a task found is in the BOM handed to the
\* validators, no entry of that BOM is the fallback structure of a failed or
\* raising search, and a part_type all of whose searches failed and that no
\* kept part carries is absent from it.
C12_PartialFailureIsolation ==
    [][ chord_body_starts =>
          /\ \A i \in 1..Len(tasks) :
                /\ tasks[i].done
                /\ tasks[i].result.status \notin {"failed", "error"}
                      => tasks[i].result \in parts(current_bom')
          /\ \A p \in parts(current_bom') : p.status \notin {"failed", "error"}
          /\ \A i \in 1..Len(tasks) :
                (/\ \A j \in 1..Len(tasks) :
                       tasks[j].part_type = tasks[i].part_type
                           => tasks[j].result.status \in {"failed", "error"}
                 /\ (callback = "merge_and_revalidate"
                        => tasks[i].part_type \notin part_types(kept_parts)))
                    => tasks[i].part_type \notin part_types(current_bom')
      ]_vars

\* the first BOM under validation holds the first and the third part_type of
\* the buy list: the search of the second one failed
C12_Witness ==
    /\ pc = "numeric"
    /\ iteration = 1
    /\ part_types(current_bom) = {TopologyOrder[1], TopologyOrder[3]}

(***************************************************************************)
(* C13                                                                     *)
(***************************************************************************)
\* the part_types a topology can require: those a buy list can name
topology_categories == { TopologyOrder[i] : i \in 1..Len(TopologyOrder) }

\* C13: a replacement whose part_type is neither in the current BOM nor one
\* the topology requires is dropped: no sourcing task is started for it and
\* no part of that part_type ever enters the BOM.
C13_UnknownCategoryDropped ==
    /\ part_types(tasks) \subseteq topology_categories
    /\ part_types(current_bom) \subseteq topology_categories

(***************************************************************************)
(* C14                                                                     *)
(***************************************************************************)
\* C14: sourcing tasks are in flight only while no task of the build is
\* validating or deciding a repair; the sourcing round of iteration k+1 is
\* started directly by the repair decision that follows the numeric
\* validation of iteration k, and the iteration counts the rounds started, so
\* there is never more than one validation or oracle call per round.
C14_IterationsSequential ==
    /\ tasks # <<>> => pc = "sourcing"
    /\ pc \in {"numeric", "oracle", "cad", "geo", "documentation"} => tasks = <<>>
    /\ iteration = count(history, "SOURCING")
    /\ count(history, "NUMERIC") <= count(history, "SOURCING")
    /\ count(history, "ORACLE") <= count(history, "NUMERIC")
    /\ count(history, "NUMERIC") >= count(history, "SOURCING") - 1
    /\ \A i \in 2..Len(history) :
          history[i] = "SOURCING" =>
              /\ i >= 3
              /\ history[i - 1] = "ORACLE"
              /\ history[i - 2] = "NUMERIC"

\* the sourcing round of iteration 3 is in flight, one of its tasks has returned
C14_Witness ==
    /\ pc = "sourcing"
    /\ iteration = 3
    /\ \E i \in 1..Len(tasks) : tasks[i].done
    /\ \E i \in 1..Len(tasks) : ~tasks[i].done

(***************************************************************************)
(* C15                                                                     *)
(***************************************************************************)
\* C15: the body of a chord starts only after every header task has
\* returned, and the BOM it builds is the kept parts followed by the found
\* parts in header order: it is the same for every order in which the tasks
\* of the batch returned.
C15_MergeIndependentOfCompletionOrder ==
    [][ chord_body_starts =>
          /\ \A i \in 1..Len(tasks) : tasks[i].done
          /\ { completion[k] : k \in 1..Len(completion) } = 1..Len(tasks)
          /\ LET kept == IF callback = "merge_and_revalidate" THEN kept_parts ELSE <<>>
                 found == [i \in 1..Len(tasks) |-> tasks[i].result]
             IN  current_bom' =
                    SelectSeq(kept \o found,
                              LAMBDA item : item.status \notin {"failed", "error"})
      ]_vars

\* every task of a batch of three has returned a part, the last one first
C15_Witness ==
    /\ pc = "sourcing"
    /\ Len(tasks) = 3
    /\ chord_ready(tasks)
    /\ completion = <<3, 1, 2>>
    /\ \A i \in 1..3 : tasks[i].result.status = "none"

batch_stuck ==
    /\ pc = "sourcing"
    /\ \E i \in 1..Len(tasks) : tasks[i].hung
    /\ \A i \in 1..Len(tasks) : tasks[i].done \/ tasks[i].hung

\* C18: a batch with a search that never completes still returns: once the
\* other searches are back the chord body can run (the stuck part_type
\* counting as failed), so the build goes on to the numeric validation.
C18_StuckResolutionReturns ==
    batch_stuck => ENABLED ChordCallback

(***************************************************************************)
(* C19                                                                     *)
(***************************************************************************)
\* total capacity (thrust of all motors) and requirement (weight) of sim_data
capacity == sim_data.max_thrust_g * sim_data.num_motors
requirement == sim_data.total_weight_g

MIN_CLEARANCE(service) == IF service = "app" THEN 1000 ELSE 2000

\* clearance = span / sqrt(2) - moving_element_size of the specs validated, in micrometres
clearance ==
    side_dist(assets.calculated_specs.wheelbase) - 10 * assets.calculated_specs.prop_diameter_mm

\* C20: the geometric validator of either service returns a report, FAIL
\* exactly when the clearance is below MIN_CLEARANCE and PASS otherwise; a
\* FAIL report has a CRITICAL entry; span 225 with size 127 gives clearance
\* 32.1 and PASS, span 225 with size 160 gives -0.9 and FAIL.
C20_GeometricVerdictByClearance ==
    geo_report # no_geo_report =>
        /\ geo_report.status \in {"PASS", "FAIL"}
        /\ (geo_report.status = "FAIL") = (clearance < MIN_CLEARANCE(geo_service))
        /\ (geo_report.status = "FAIL") = (geo_report.errors # <<>>)
        /\ (/\ assets.calculated_specs.wheelbase = 225
            /\ assets.calculated_specs.prop_diameter_mm = 12700)
              => (geo_report.status = "PASS" /\ geo_report.prop_gap_mm = 3210)
        /\ (/\ assets.calculated_specs.wheelbase = 225
            /\ assets.calculated_specs.prop_diameter_mm = 16000)
              => (geo_report.status = "FAIL" /\ geo_report.prop_gap_mm = -90)

(***************************************************************************)
(* C24                                                                     *)
(***************************************************************************)
\* C24: in one build optimize_specs is called at most 3 times and the numeric
\* validator is run at most 4 times; once the first chord is started the
\* iteration of project_context is 1 and it stays within 1..4.
C24_OracleAndValidatorCallsBounded ==
    /\ count(history, "ORACLE") <= 3
    /\ count(history, "NUMERIC") <= 4
    /\ callback # "none" => iteration \in 1..4
    /\ (callback # "none" /\ count(history, "ORACLE") = 0) => iteration = 1
    /\ count(history, "ORACLE") >= iteration - 1

\* the oracle has been consulted three times and the numeric validator has
\* run a fourth time, on the BOM of iteration 4
C24_Witness ==
    /\ count(history, "ORACLE") = 3
    /\ count(history, "NUMERIC") = 4
    /\ iteration = 4

(***************************************************************************)
(* C25                                                                     *)
(***************************************************************************)
\* a part_type of the repair chord in flight all of whose searches failed
resourcing_failed(part_type) ==
    /\ callback = "merge_and_revalidate"
    /\ part_type \in part_types(tasks)
    /\ \A i \in 1..Len(tasks) :
          tasks[i].part_type = part_type
              => (tasks[i].done /\ tasks[i].result.status \in {"failed", "error"})

\* C25: the part of a part_type a replacement names is removed when the
\* repair is scheduled (it is not among the kept parts while the repair chord
\* is in flight), and when the re-sourcing of the part_type fails the BOM
\* validated next holds no part of it.
C25_FailedResourcingLeavesCategoryAbsent ==
    [][ /\ (pc = "oracle" /\ pc' = "sourcing") =>
              \A p \in parts(current_bom) :
                  p.part_type \in types_to_remove(replacements')
                      => p \notin parts(kept_parts')
        /\ chord_body_starts =>
              \A i \in 1..Len(tasks) :
                  resourcing_failed(tasks[i].part_type)
                      => tasks[i].part_type \notin part_types(current_bom')
      ]_vars

\* the BOM of iteration 2 under validation: iteration 1 was scored with the
\* 40 g thrust of its 0802 motor, the repair named Motors only, no part of
\* the BOM is a motor any more and the kept parts are still there
C25_Witness ==
    /\ pc = "numeric"
    /\ iteration = 2
    /\ types_to_remove(replacements) = {"Motors"}
    /\ "Motors" \notin part_types(current_bom)
    /\ current_bom # <<>>
    /\ current_bom = kept_parts
    /\ sim_data.max_thrust_g = 40

(***************************************************************************)
(* C29                                                                     *)
(***************************************************************************)
\* C29: every report the geometric simulation of either service returns has
\* status FAIL if and only if its errors list is not empty; a report with
\* warnings and no error is a PASS.
C29_FailIffErrors ==
    geo_report.status \in {"PASS", "FAIL"} =>
        /\ (geo_report.status = "FAIL") = (geo_report.errors # <<>>)
        /\ (geo_report.warnings # <<>> /\ geo_report.errors = <<>>)
              => geo_report.status = "PASS"

\* a report of the app service with a warning (tight gap) and status PASS
C29_Witness ==
    /\ geo_service = "app"
    /\ geo_report.status = "PASS"
    /\ geo_report.warnings # <<>>
    /\ geo_report.prop_gap_mm < 500


(***************************************************************************)
(* The quadruped pipeline: validator and optimizer                         *)
(***************************************************************************)
\* the unrounded safety_margin of generate_physics_config(bom) is below
\* hundredths / 100 (it is 0 when req_torque is 0)
margin_below(bom, hundredths) ==
    \/ margin_den(bom) = 0
    \/ 100 * margin_num(bom) < hundredths * margin_den(bom)

\* the severities of the UPGRADE_PART fixes for Actuators in a fix plan
actuator_upgrades(plan) ==
    { plan.optimization_plan[i].severity :
        i \in { j \in 1..Len(plan.optimization_plan) :
                  /\ plan.optimization_plan[j].type = "UPGRADE_PART"
                  /\ plan.optimization_plan[j].part_type = "Actuators" } }

C28_ValidatorAndOptimizerAgree ==
    [][OptimizeDesign
         => ((actuator_upgrades(fix_plan') # {}) <=> ~physics_cfg.is_mechanically_sound)]_vars

\* C21: a margin below 1.0 gets severity CRITICAL, a margin from 1.0 up to
\* MIN_MARGIN = 1.5 gets WARNING, both fail the gate, and a margin of at
\* least MIN_MARGIN passes it
C21_SeverityFollowsMargin ==
    [][/\ ValidateBuild
          => (physics_cfg'.is_mechanically_sound <=> ~margin_below(real_bom, 150))
       /\ (OptimizeDesign /\ margin_below(real_bom, 100))
          => actuator_upgrades(fix_plan') = {"CRITICAL"}
       /\ (OptimizeDesign /\ ~margin_below(real_bom, 100) /\ margin_below(real_bom, 150))
          => actuator_upgrades(fix_plan') = {"WARNING"}]_vars


\* C22: the numeric validator returns a report for every BOM it is given,
\* whatever categories are unresolved: the report of a finished simulation
\* carries the thrust-to-weight ratio
C22_ValidatorAlwaysReports ==
    physics_report # no_report => physics_report.has_twr


(***************************************************************************)
(* The professional flow: the parts cache                                  *)
(***************************************************************************)
\* C26: in an iteration after the first, every category in kept_parts_cache
\* that the latest replacements do not name is in the BOM of that iteration,
\* as the cached part
C26_CachePreservesUnchangedCategories ==
    [][(ProfSource /\ iteration >= 1)
         => \A i \in 1..Len(kept_parts_cache) :
              kept_parts_cache[i].part_type \notin part_types(shopping_list)
                => \E j \in 1..Len(current_bom') : current_bom'[j] = kept_parts_cache[i]]_vars


(***************************************************************************)
(* The evolution loop: history and the optimizer's copy                    *)
(***************************************************************************)
\* C30: the specs object recorded in history for a generation still has the
\* value it had when the generation was recorded (the dna written to
\* master_dna.json): no later call of analyze_and_fix altered it
C30_RecordedSpecsNotAltered ==
    \A i \in 1..Len(generations) : heap[generations[i].specs] = generations[i].dna

\* three generations were mutated, each on its own object, and generation 1
\* is still the seed design
C30_Witness ==
    /\ Len(generations) >= 3
    /\ generations[1].specs # current_specs
    /\ generations[1].specs # generations[2].specs
    /\ heap[generations[1].specs] = seed_specs
    /\ heap[generations[2].specs] # seed_specs
    /\ heap[current_specs].prop_diameter_inch > heap[generations[2].specs].prop_diameter_inch

====
